---- MODULE Spec2Model ----
\* Model of the character service of src/app.py: a CSV backing file guarded by a
\* file lock, loaded and rewritten by the list / update / delete handlers.
EXTENDS Integers, Sequences, FiniteSets, TLC

\* ------------------------------------------------------------------ bounds
\* Largest number of data rows of an initial backing file.
MaxRows == 2
\* Requests the single client of SeqSpec issues one after the other.
MaxOps == 3
\* Steps of the load / save harness of LoadSpec.
MaxTrail == 3
\* Largest number of data rows of an initial file of LoadSpec.
MaxLoadRows == 3

\* ------------------------------------------------------- program constants
LOCK_TIMEOUT_SEC == 5

\* The request threads of the concurrent specification.
Procs == {"t1", "t2"}
\* lock value when nobody holds the guard
Free == "free"

\* ----------------------------------------------------------------- strings
\* A Python str is a sequence of one-character strings.
Whitespace == {" ", "\t"}

RECURSIVE LStrip(_)
LStrip(s) == IF s # <<>> /\ Head(s) \in Whitespace THEN LStrip(Tail(s)) ELSE s

RECURSIVE RStrip(_)
RStrip(s) ==
  IF s # <<>> /\ s[Len(s)] \in Whitespace THEN RStrip(SubSeq(s, 1, Len(s) - 1)) ELSE s

\* str.strip()
Strip(s) == RStrip(LStrip(s))

DigitChar == <<"0", "1", "2", "3", "4", "5", "6", "7", "8", "9">>

\* str(n) of a non-negative integer
RECURSIVE Digits(_)
Digits(n) ==
  IF n < 10 THEN <<DigitChar[n + 1]>> ELSE Digits(n \div 10) \o <<DigitChar[(n % 10) + 1]>>

\* str(uuid.uuid4()): the k-th identifier generated; distinct k give distinct
\* identifiers, and none is the text of an identifier of an initial file.
Uuid(k) == <<"u">> \o Digits(k)

UpperChars == <<"A", "B", "C", "D", "E", "F", "G", "H", "I", "J", "K", "L", "M",
                "N", "O", "P", "Q", "R", "S", "T", "U", "V", "W", "X", "Y", "Z">>
LowerChars == <<"a", "b", "c", "d", "e", "f", "g", "h", "i", "j", "k", "l", "m",
                "n", "o", "p", "q", "r", "s", "t", "u", "v", "w", "x", "y", "z">>

\* str.lower()
Lower(s) ==
  [i \in 1..Len(s) |->
     IF \E k \in 1..Len(UpperChars) : UpperChars[k] = s[i]
     THEN LowerChars[CHOOSE k \in 1..Len(UpperChars) : UpperChars[k] = s[i]]
     ELSE s[i]]

\* A JSON value of a payload: a string or a non-negative integer.
JsonStr(s) == [kind |-> "str", text |-> s, num |-> 0]
JsonInt(n) == [kind |-> "int", text |-> <<>>, num |-> n]
\* str(value), line 134
PyStr(v) == IF v.kind = "int" THEN Digits(v.num) ELSE v.text

\* Series.str.contains(pat) searches for pat as a regular expression
\* (regex=True is the default). The patterns of the model are made of literal
\* characters, of "." (any character) and of "(" (a group that is never
\* closed, which re.compile refuses).
ReCompiles(pat) == \A k \in 1..Len(pat) : pat[k] # "("
ReMatchAt(pat, s, o) ==
  /\ o + Len(pat) - 1 <= Len(s)
  /\ \A k \in 1..Len(pat) : pat[k] = "." \/ pat[k] = s[o + k - 1]
Contains(pat, s) == \E o \in 1..(Len(s) + 1) : ReMatchAt(pat, s, o)

COL_ID == <<"i", "d">>
COL_FIRST == <<"f", "i", "r", "s", "t", "_", "n", "a", "m", "e">>
COL_LAST == <<"l", "a", "s", "t", "_", "n", "a", "m", "e">>
\* a column the service knows nothing about; passed through
COL_EXTRA == <<"j", "o", "b">>

\* the name pandas gives a header field that is empty
Unnamed(i) == <<"U", "n", "n", "a", "m", "e", "d", ":", " ">> \o Digits(i)

\* --------------------------------------------------------------- the files
DATA_PATH == "data/friends_data.csv"

\* _atomic_write: tmp = DATA_PATH + ".tmp"
TmpPathDirect(path) == path
TmpPath(path) == "data/friends_data.csv.tmp"

\* A file is absent, or holds a header line and data lines of fields. A file of
\* zero bytes has an empty header.
NoFile == [exists |-> FALSE, header |-> <<>>, rows |-> <<>>]
CsvFile(h, rs) == [exists |-> TRUE, header |-> h, rows |-> rs]
EmptyFile == CsvFile(<<>>, <<>>)

\* What a write that fails part-way can leave behind: nothing, or the header
\* and a proper prefix of the lines.
Truncations(f) ==
  {EmptyFile} \cup {CsvFile(f.header, SubSeq(f.rows, 1, k)) : k \in 0..(Len(f.rows) - 1)}

\* ---------------------------------------------------------- the DataFrame
\* columns: the column names; index: the row labels; cells: the rows, each a
\* sequence of values in column order.
DataFrame(cols, idx, cells) == [columns |-> cols, index |-> idx, cells |-> cells]
NoDF == DataFrame(<<>>, <<>>, <<>>)

HasCol(d, c) == \E i \in 1..Len(d.columns) : d.columns[i] = c
ColPos(d, c) == CHOOSE i \in 1..Len(d.columns) :
                  d.columns[i] = c /\ \A j \in 1..(i - 1) : d.columns[j] # c
\* df[c] as the sequence of its values
Column(d, c) == [i \in 1..Len(d.cells) |-> d.cells[i][ColPos(d, c)]]
IdSet(d) == {d.cells[i][ColPos(d, COL_ID)] : i \in 1..Len(d.cells)}

\* the positions from i on whose flag is TRUE, in increasing order
RECURSIVE SelectIdx(_, _)
SelectIdx(keep, i) ==
  IF i > Len(keep) THEN <<>>
  ELSE (IF keep[i] THEN <<i>> ELSE <<>>) \o SelectIdx(keep, i + 1)

\* the rows at the given positions, labels kept
TakeRows(d, pos) ==
  DataFrame(d.columns,
            [k \in 1..Len(pos) |-> d.index[pos[k]]],
            [k \in 1..Len(pos) |-> d.cells[pos[k]]])

\* pd.read_csv(DATA_PATH, dtype=str, keep_default_na=False): every field is
\* text, an empty field stays the empty string, rows are labelled 0..n-1.
ReadCsv(f) ==
  DataFrame([i \in 1..Len(f.header) |->
               IF f.header[i] = <<>> THEN Unnamed(i - 1) ELSE f.header[i]],
            [i \in 1..Len(f.rows) |-> i - 1],
            f.rows)

\* df.to_csv(tmp, index=False): the header and the rows, the labels dropped
ToCsvWithIndex(d) ==
  CsvFile(<<<<>>>> \o d.columns,
          [i \in 1..Len(d.cells) |-> <<Digits(d.index[i])>> \o d.cells[i]])
ToCsv(d) == CsvFile(d.columns, d.cells)

\* df.columns = [c.strip() for c in df.columns]
StripColumns(d) ==
  DataFrame([i \in 1..Len(d.columns) |-> Strip(d.columns[i])], d.index, d.cells)

\* an id that is empty or only whitespace gets a new identifier
IsBlank(x) == Strip(x) = <<>>
BlanksUpTo(ids, i) == Cardinality({j \in 1..i : IsBlank(ids[j])})

\* lines 33-37: the id column is created when absent, else blank ids are filled;
\* ctr is the number of identifiers generated so far.
EnsureIds(d, ctr) ==
  IF ~HasCol(d, COL_ID)
  THEN DataFrame(<<COL_ID>> \o d.columns, d.index,
                 [i \in 1..Len(d.cells) |-> <<Uuid(ctr + i)>> \o d.cells[i]])
  ELSE LET p == ColPos(d, COL_ID)
           ids == Column(d, COL_ID)
       IN DataFrame(d.columns, d.index,
                    [i \in 1..Len(d.cells) |->
                       IF IsBlank(ids[i])
                       THEN [d.cells[i] EXCEPT ![p] = Uuid(ctr + BlanksUpTo(ids, i))]
                       ELSE d.cells[i]])

Generated(d) ==
  IF ~HasCol(d, COL_ID) THEN Len(d.cells)
  ELSE BlanksUpTo(Column(d, COL_ID), Len(d.cells))

\* df.drop_duplicates(subset=["id"], keep="first")
DropDuplicatesKeepLast(d) ==
  LET ids == Column(d, COL_ID)
      keep == [i \in 1..Len(ids) |-> \A j \in (i + 1)..Len(ids) : ids[j] # ids[i]]
  IN TakeRows(d, SelectIdx(keep, 1))
DropDuplicates(d) ==
  LET ids == Column(d, COL_ID)
      keep == [i \in 1..Len(ids) |-> \A j \in 1..(i - 1) : ids[j] # ids[i]]
  IN TakeRows(d, SelectIdx(keep, 1))

\* _load_csv: the outcome of loading file f when ctr identifiers have been
\* generated: err is "" on success, else the exception raised.
\* (each stage is bound to a name once: d0 the stripped table, d1 with its ids)
LoadCsv(f, ctr) ==
  IF ~f.exists THEN [err |-> "FileNotFoundError", df |-> NoDF, ctr |-> ctr]
  ELSE IF f.header = <<>> THEN [err |-> "EmptyDataError", df |-> NoDF, ctr |-> ctr]
  ELSE CHOOSE r \in
         {IF ~HasCol(d1, COL_FIRST) \/ ~HasCol(d1, COL_LAST)
          THEN [err |-> "ValueError", df |-> NoDF, ctr |-> ctr + Generated(d0)]
          ELSE [err |-> "", df |-> DropDuplicates(d1), ctr |-> ctr + Generated(d0)] :
            <<d0, d1>> \in {<<x, EnsureIds(x, ctr)>> : x \in {StripColumns(ReadCsv(f))}}} : TRUE

\* ------------------------------------------------------------ the handlers
\* paginate(df, page, per_page)
Max(a, b) == IF a > b THEN a ELSE b
Min(a, b) == IF a < b THEN a ELSE b
PaginateFloor(d, page0, per_page0) ==
  LET total == Len(d.cells)
      page == Max(page0, 1)
      per_page == Max(per_page0, 1)
      start == (page - 1) * per_page
      end == start + per_page
  IN [items |-> SubSeq(d.cells, start + 1, Min(end, total)),
      page |-> page, per_page |-> per_page, total |-> total,
      total_pages |-> total \div per_page]
Paginate(d, page0, per_page0) ==
  LET total == Len(d.cells)
      page == Max(page0, 1)
      per_page == Max(per_page0, 1)
      start == (page - 1) * per_page
      end == start + per_page
  IN [items |-> SubSeq(d.cells, start + 1, Min(end, total)),
      page |-> page, per_page |-> per_page, total |-> total,
      total_pages |-> (total + per_page - 1) \div per_page]

\* search_characters, lines 108-114, on DataFrame d with the lowered filters.
\* mask is a Series labelled 0..n-1. `mask &= s` aligns s, which carries the
\* labels of d, to the labels of mask: a label of mask that d lacks gives
\* False. d[mask] needs every label of d in mask, else pandas raises
\* IndexingError (unalignable boolean Series).
MaskLabels(d) == 0..(Len(d.cells) - 1)
RowOfLabel(d, l) == CHOOSE i \in 1..Len(d.index) : d.index[i] = l
MaskAnd(mask, d, column, pat) ==
  [l \in DOMAIN mask |->
     IF \E i \in 1..Len(d.index) : d.index[i] = l
     THEN mask[l] /\ Contains(pat, Lower(d.cells[RowOfLabel(d, l)][ColPos(d, column)]))
     ELSE FALSE]
Search(d, first, last) ==
  LET mask0 == [l \in MaskLabels(d) |-> TRUE]
      mask1 == IF first # <<>> THEN MaskAnd(mask0, d, COL_FIRST, first) ELSE mask0
      mask2 == IF last # <<>> THEN MaskAnd(mask1, d, COL_LAST, last) ELSE mask1
      aligned == \A i \in 1..Len(d.index) : d.index[i] \in DOMAIN mask2
      keep == [i \in 1..Len(d.index) |-> mask2[d.index[i]]]
  IN IF (first # <<>> /\ ~ReCompiles(first)) \/ (last # <<>> /\ ~ReCompiles(last))
     THEN [err |-> "re.error", items |-> <<>>]
     ELSE IF ~aligned THEN [err |-> "IndexingError", items |-> <<>>]
     ELSE [err |-> "", items |-> TakeRows(d, SelectIdx(keep, 1)).cells]

\* update_character, lines 132-134: the payload's items applied in order
\* line 133: column != "id" and column in df.columns
Settable(d, column) == column # COL_ID /\ HasCol(d, column)

\* line 134: df["id"] == id, for the i-th row
SelectedAll(d, i, id) == TRUE
Selected(d, i, id) == d.cells[i][ColPos(d, COL_ID)] = id

RECURSIVE ApplyPatch(_, _, _)
ApplyPatch(d, id, patch) ==
  IF patch = <<>> THEN d
  ELSE LET column == Head(patch)[1]
           value == Head(patch)[2]
           d2 == IF Settable(d, column)
                 THEN [d EXCEPT !.cells =
                         [i \in 1..Len(d.cells) |->
                            IF Selected(d, i, id)
                            THEN [d.cells[i] EXCEPT ![ColPos(d, column)] = PyStr(value)]
                            ELSE d.cells[i]]]
                 ELSE d
       IN ApplyPatch(d2, id, Tail(patch))

\* delete_character, line 151: df[df["id"] != id]
DeleteRowsFrom(d, id) ==
  LET ids == Column(d, COL_ID)
      keep == [i \in 1..Len(ids) |-> \A j \in 1..i : ids[j] # id]
  IN TakeRows(d, SelectIdx(keep, 1))
DeleteRowsKeepMatch(d, id) ==
  LET ids == Column(d, COL_ID)
      keep == [i \in 1..Len(ids) |-> ids[i] = id]
  IN TakeRows(d, SelectIdx(keep, 1))
DeleteRows(d, id) ==
  LET ids == Column(d, COL_ID)
      keep == [i \in 1..Len(ids) |-> ids[i] # id]
  IN TakeRows(d, SelectIdx(keep, 1))

\* lines 129 and 148: id not in set(df["id"])
NotFoundNever(d, id) == FALSE
NotFound(d, id) == id \notin IdSet(d)

\* FileLock(LOCK_PATH, timeout=LOCK_TIMEOUT_SEC): an acquisition that has
\* polled for w time units gives up
ExpiredNever(w) == FALSE
Expired(w) == w >= LOCK_TIMEOUT_SEC

\* `with FileLock(...)`: the holder of the guard after thread p leaves the
\* block, normally or by an exception
HolderAfterExitLeak(p, failed) == IF failed THEN p ELSE Free
HolderAfterExit(p, failed) == Free

\* ---------------------------------------------------------------- the state
VARIABLES
  fs,        \* path -> file: the backing file and its temporary sibling
  lock,      \* the thread holding the file lock, or Free
  uuidCtr,   \* identifiers uuid4 has generated so far
  pc,        \* thread -> where its handler stands
  req,       \* thread -> the request it serves
  df,        \* thread -> its DataFrame
  status,    \* thread -> HTTP status of its response (0: none yet)
  err,       \* thread -> the exception behind a 500, or ""
  resp,      \* thread -> the body of its response
  waited,    \* thread -> time units spent polling for the lock
  todo,      \* thread -> requests it may still serve
  loaded,    \* thread -> history: the DataFrame its load returned
  before,    \* thread -> history: the backing file when its request began
  wholes,    \* history: the complete file contents: initial, and of every save begun
  log,       \* history: the requests completed last, in order (SeqSpec)
  trail      \* history of the load / save harness (LoadSpec)

vars == <<fs, lock, uuidCtr, pc, req, df, status, err, resp, waited, todo,
          loaded, before, wholes, log, trail>>

Data == fs[DATA_PATH]

NoReq == [op |-> "none", id |-> <<>>, patch |-> <<>>, page |-> 0, per_page |-> 0,
          first |-> <<>>, last |-> <<>>]
NoResp == [items |-> <<>>, page |-> 0, per_page |-> 0, total |-> 0, total_pages |-> 0,
           count |-> 0]

\* ------------------------------------------------------------ input values
\* first_name of the i-th row of an initial file, and the last_name of all
FirstOf(i) == <<"R">> \o Digits(i)
LAST0 == <<"G">>
NEW_FIRST == <<"X">>
NEW_LAST == <<"Y">>

GoodHeader == <<COL_ID, COL_FIRST, COL_LAST>>
\* ids of the rows of an initial file
FileIds == {<<>>, <<"7">>, <<"8">>}
\* ids a request may name, besides identifiers already generated
RequestIds == {<<"7">>, <<"8">>}

RowsUpTo(m, ids) == UNION {[1..n -> ids] : n \in 0..m}
RowsOver(ids) == RowsUpTo(MaxRows, ids)
GoodFiles ==
  {CsvFile(GoodHeader, [i \in 1..Len(is) |-> <<is[i], FirstOf(i), LAST0>>]) :
     is \in RowsOver(FileIds)}
\* a file without the last_name column
SchemaLessFile == CsvFile(<<COL_ID, COL_FIRST>>, <<<<<<"7">>, FirstOf(1)>>>>)

\* a payload is the sequence of its items, each a key and a JSON value
Patches == {<<<<COL_FIRST, JsonStr(NEW_FIRST)>>>>, <<<<COL_LAST, JsonStr(NEW_LAST)>>>>}

ListReq(page, per_page) == [NoReq EXCEPT !.op = "list", !.page = page, !.per_page = per_page]
SearchReq(first, last) == [NoReq EXCEPT !.op = "search", !.first = first, !.last = last]
UpdateReq(id, patch) == [NoReq EXCEPT !.op = "update", !.id = id, !.patch = patch]
DeleteReq(id) == [NoReq EXCEPT !.op = "delete", !.id = id]

\* the backing file as a table: the header's names stripped, no id repair
Table == StripColumns(ReadCsv(Data))

\* The ids a request can name: the pool, and the ids the backing file holds
\* (a generated identifier is of use to a client only once a save has stored
\* it; any other text is an unknown id, like those of the pool).
KnownIds ==
  RequestIds \cup
  (IF Data.exists /\ HasCol(Table, COL_ID) THEN {x \in IdSet(Table) : ~IsBlank(x)} ELSE {})

ConcRequests ==
  {ListReq(1, 10)}
  \cup {UpdateReq(i, q) : i \in KnownIds, q \in Patches}
  \cup {DeleteReq(i) : i \in KnownIds}

SeqRequests ==
  {ListReq(1, 10), ListReq(2, 1), UpdateReq(<<"7">>, <<>>)}
  \cup {UpdateReq(i, <<<<COL_FIRST, JsonStr(NEW_FIRST)>>>>) : i \in KnownIds}
  \cup {DeleteReq(i) : i \in KnownIds}

\* ------------------------------------------------------------- the actions
NotLoaded == [ok |-> FALSE, df |-> NoDF]
NoFs == [x \in {DATA_PATH, TmpPath(DATA_PATH)} |-> NoFile]

\* os.replace(src, dst)
OsReplace(f, src, dst) ==
  IF src = dst THEN f ELSE [f EXCEPT ![dst] = f[src], ![src] = NoFile]

\* write_csv_safely(df) when nothing fails: the files afterwards
AtomicWrite(f, d) ==
  OsReplace([f EXCEPT ![TmpPath(DATA_PATH)] = ToCsv(d)], TmpPath(DATA_PATH), DATA_PATH)

\* list_characters and search_characters: the DataFrame d they loaded is a
\* local of the handler and is dropped on return; the files stay as they are
DiscardBySaving(f, d) == AtomicWrite(f, d)
Discard(f, d) == f

\* lines 103 and 125: the request is refused before the file is touched
Refused(r) ==
  \/ r.op = "update" /\ r.patch = <<>>
  \/ r.op = "search" /\ Lower(r.first) = <<>> /\ Lower(r.last) = <<>>

\* the log keeps the three requests completed last, oldest first
Logged(events, e) ==
  IF Len(events) >= 3 THEN Append(Tail(events), e) ELSE Append(events, e)

Entry(r, st, e, rs, bef, aft, ld) ==
  [req |-> r, status |-> st, err |-> e, resp |-> rs,
   before |-> bef, after |-> aft, loaded |-> ld]

\* thread p returns its response: status st, exception e, body rs; its
\* DataFrame goes out of scope
Finish(p, st, e, rs, aft) ==
  /\ pc' = [pc EXCEPT ![p] = "done"]
  /\ status' = [status EXCEPT ![p] = st]
  /\ err' = [err EXCEPT ![p] = e]
  /\ resp' = [resp EXCEPT ![p] = rs]
  /\ df' = [df EXCEPT ![p] = NoDF]
  /\ log' = IF log.on
            THEN [log EXCEPT !.events =
                    Logged(@, Entry(req[p], st, e, rs, before[p], aft, loaded[p]))]
            ELSE log

\* A request arrives at thread p. update_character answers 400 to an empty
\* payload, and search_characters to two empty filters, before the file is
\* touched (lines 124-126, 103-104).
Start(p, R) ==
  /\ pc[p] \in {"idle", "done"}
  /\ todo[p] > 0
  /\ \E r \in R :
       /\ req' = [req EXCEPT ![p] = r]
       /\ IF Refused(r)
          THEN /\ pc' = [pc EXCEPT ![p] = "done"]
               /\ status' = [status EXCEPT ![p] = 400]
               /\ log' = IF log.on
                         THEN [log EXCEPT !.events =
                                 Logged(@, Entry(r, 400, "", NoResp, fs, fs, NotLoaded))]
                         ELSE log
          ELSE /\ pc' = [pc EXCEPT ![p] = "r_wait"]
               /\ status' = [status EXCEPT ![p] = 0]
               /\ log' = log
  /\ todo' = [todo EXCEPT ![p] = @ - 1]
  /\ df' = [df EXCEPT ![p] = NoDF]
  /\ err' = [err EXCEPT ![p] = ""]
  /\ resp' = [resp EXCEPT ![p] = NoResp]
  /\ waited' = [waited EXCEPT ![p] = 0]
  /\ loaded' = [loaded EXCEPT ![p] = NotLoaded]
  /\ before' = [before EXCEPT ![p] = IF log.on THEN fs ELSE NoFs]
  /\ UNCHANGED <<fs, lock, uuidCtr, wholes, trail>>

StartConc(p) == Start(p, ConcRequests)
StartSeq(p) == Start(p, SeqRequests)

Waiting(p) == pc[p] \in {"r_wait", "w_wait"}

\* FileLock.__enter__: the lock is free and p takes it
Acquire(p) ==
  /\ Waiting(p)
  /\ lock = Free
  /\ lock' = p
  /\ pc' = [pc EXCEPT ![p] = IF pc[p] = "r_wait" THEN "r_cs" ELSE "w_cs"]
  /\ waited' = [waited EXCEPT ![p] = 0]
  /\ UNCHANGED <<fs, uuidCtr, req, df, status, err, resp, todo,
                 loaded, before, wholes, log, trail>>

\* the lock is held by another thread: p polls for one more time unit
Tick(p) ==
  /\ Waiting(p)
  /\ lock # Free
  /\ ~Expired(waited[p])
  /\ waited[p] <= LOCK_TIMEOUT_SEC    \* the clock of the model stops here
  /\ waited' = [waited EXCEPT ![p] = @ + 1]
  /\ UNCHANGED <<fs, lock, uuidCtr, pc, req, df, status, err, resp, todo,
                 loaded, before, wholes, log, trail>>

\* the lock is still held when the timeout has passed: filelock.Timeout, which
\* the handler turns into a 500
Timeout(p) ==
  /\ Waiting(p)
  /\ lock # Free
  /\ Expired(waited[p])
  /\ Finish(p, 500, "Timeout", NoResp, fs)
  /\ UNCHANGED <<fs, lock, uuidCtr, req, waited, todo,
                 loaded, before, wholes, trail>>

\* read_csv_safely: _load_csv under the lock, which is released on return and
\* on an exception alike
Load(p) ==
  /\ pc[p] = "r_cs"
  /\ LET r == LoadCsv(Data, uuidCtr)
         failed == r.err # ""
     IN /\ uuidCtr' = r.ctr
        /\ lock' = HolderAfterExit(p, failed)
        /\ IF failed
           THEN /\ Finish(p, 500, r.err, NoResp, fs)
                /\ UNCHANGED loaded
           ELSE /\ pc' = [pc EXCEPT ![p] = "loaded"]
                /\ df' = [df EXCEPT ![p] = r.df]
                /\ loaded' = [loaded EXCEPT ![p] =
                                IF log.on THEN [ok |-> TRUE, df |-> r.df] ELSE @]
                /\ UNCHANGED <<status, err, resp, log>>
  /\ UNCHANGED <<fs, req, waited, todo, before, wholes, trail>>

\* list_characters, lines 90-91
ListRespond(p) ==
  /\ pc[p] = "loaded"
  /\ req[p].op = "list"
  /\ fs' = Discard(fs, df[p])
  /\ Finish(p, 200, "", Paginate(df[p], req[p].page, req[p].per_page), fs')
  /\ UNCHANGED <<lock, uuidCtr, req, waited, todo,
                 loaded, before, wholes, trail>>

\* search_characters, lines 108-118: the matching rows and their number, or
\* the 500 of an exception
SearchRespond(p) ==
  /\ pc[p] = "loaded"
  /\ req[p].op = "search"
  /\ fs' = Discard(fs, df[p])
  /\ LET r == Search(df[p], Lower(req[p].first), Lower(req[p].last))
     IN IF r.err # ""
        THEN Finish(p, 500, r.err, NoResp, fs')
        ELSE Finish(p, 200, "", [NoResp EXCEPT !.items = r.items,
                                               !.count = Len(r.items)], fs')
  /\ UNCHANGED <<lock, uuidCtr, req, waited, todo,
                 loaded, before, wholes, trail>>

\* update_character lines 129-130 and delete_character lines 148-149
RespondNotFound(p) ==
  /\ pc[p] = "loaded"
  /\ req[p].op \in {"update", "delete"}
  /\ NotFound(df[p], req[p].id)
  /\ Finish(p, 404, "", NoResp, fs)
  /\ UNCHANGED <<fs, lock, uuidCtr, req, waited, todo,
                 loaded, before, wholes, trail>>

\* update_character lines 132-134 and delete_character line 151: the change
\* is made on the thread's own DataFrame, then write_csv_safely is entered
Mutate(p) ==
  /\ pc[p] = "loaded"
  /\ req[p].op \in {"update", "delete"}
  /\ ~NotFound(df[p], req[p].id)
  /\ df' = [df EXCEPT ![p] = IF req[p].op = "update"
                             THEN ApplyPatch(@, req[p].id, req[p].patch)
                             ELSE DeleteRows(@, req[p].id)]
  /\ pc' = [pc EXCEPT ![p] = "w_wait"]
  /\ waited' = [waited EXCEPT ![p] = 0]
  /\ UNCHANGED <<fs, lock, uuidCtr, req, status, err, resp, todo,
                 loaded, before, wholes, log, trail>>

\* _atomic_write line 50: df.to_csv(tmp, index=False)
WriteTmp(p) ==
  /\ pc[p] = "w_cs"
  /\ fs' = [fs EXCEPT ![TmpPath(DATA_PATH)] = ToCsv(df[p])]
  /\ wholes' = wholes \cup {ToCsv(df[p])}
  /\ pc' = [pc EXCEPT ![p] = "w_rename"]
  /\ UNCHANGED <<lock, uuidCtr, req, df, status, err, resp, waited, todo,
                 loaded, before, log, trail>>

\* to_csv fails part-way (disk full): the exception leaves the `with` block,
\* the handler answers 500
WriteFail(p) ==
  /\ pc[p] = "w_cs"
  /\ \E t \in Truncations(ToCsv(df[p])) :
       fs' = [fs EXCEPT ![TmpPath(DATA_PATH)] = t]
  /\ lock' = HolderAfterExit(p, TRUE)
  /\ Finish(p, 500, "OSError", NoResp, fs')
  /\ UNCHANGED <<uuidCtr, req, waited, todo, loaded, before, wholes, trail>>

\* the body of the 200 response after the save (lines 137-138, 153)
Saved(p) ==
  IF req[p].op = "update"
  THEN [NoResp EXCEPT !.items =
          <<df[p].cells[CHOOSE i \in 1..Len(df[p].cells) :
                          /\ df[p].cells[i][ColPos(df[p], COL_ID)] = req[p].id
                          /\ \A j \in 1..(i - 1) :
                               df[p].cells[j][ColPos(df[p], COL_ID)] # req[p].id]>>]
  ELSE NoResp

\* _atomic_write line 51: os.replace(tmp, DATA_PATH); the lock is released
\* and the handler answers 200
Replace(p) ==
  /\ pc[p] = "w_rename"
  /\ fs' = OsReplace(fs, TmpPath(DATA_PATH), DATA_PATH)
  /\ lock' = HolderAfterExit(p, FALSE)
  /\ Finish(p, 200, "", Saved(p), fs')
  /\ UNCHANGED <<uuidCtr, req, waited, todo, loaded, before, wholes, trail>>

\* os.replace fails: the backing file is untouched
ReplaceFail(p) ==
  /\ pc[p] = "w_rename"
  /\ lock' = HolderAfterExit(p, TRUE)
  /\ Finish(p, 500, "OSError", NoResp, fs)
  /\ UNCHANGED <<fs, uuidCtr, req, waited, todo, loaded, before, wholes, trail>>

\* ------------------------------------------------------ the specifications
InitFiles == GoodFiles \cup {NoFile, SchemaLessFile}

InitWith(files, ops, logging) ==
  /\ fs \in {[x \in {DATA_PATH, TmpPath(DATA_PATH)} |-> IF x = DATA_PATH THEN f ELSE NoFile] :
               f \in files}
  /\ lock = Free
  /\ uuidCtr = 0
  /\ pc = [p \in Procs |-> "idle"]
  /\ req = [p \in Procs |-> NoReq]
  /\ df = [p \in Procs |-> NoDF]
  /\ status = [p \in Procs |-> 0]
  /\ err = [p \in Procs |-> ""]
  /\ resp = [p \in Procs |-> NoResp]
  /\ waited = [p \in Procs |-> 0]
  /\ todo = ops
  /\ loaded = [p \in Procs |-> NotLoaded]
  /\ before = [p \in Procs |-> NoFs]
  /\ wholes = {Data}
  /\ log = [on |-> logging, events |-> <<>>]
  /\ trail = <<>>

\* Two threads, one request each, any interleaving.
Init == InitWith(InitFiles, [p \in Procs |-> 1], FALSE)

Step(p) ==
  \/ StartConc(p)
  \/ Acquire(p)
  \/ Tick(p)
  \/ Timeout(p)
  \/ Load(p)
  \/ ListRespond(p)
  \/ RespondNotFound(p)
  \/ Mutate(p)
  \/ WriteTmp(p)
  \/ WriteFail(p)
  \/ Replace(p)
  \/ ReplaceFail(p)

Next == \E p \in Procs : Step(p)

Spec == Init /\ [][Next]_vars

\* One client: thread t1 serves MaxOps requests one after the other, nothing
\* runs beside it and no write fails; the requests completed are logged.
SeqFiles ==
  {f \in InitFiles : \A i \in 1..Len(f.rows) : f.rows[i][1] # <<"8">>}
SeqInit ==
  InitWith(SeqFiles, [p \in Procs |-> IF p = "t1" THEN MaxOps ELSE 0], TRUE)

SeqStep(p) ==
  \/ StartSeq(p)
  \/ Acquire(p)
  \/ Load(p)
  \/ ListRespond(p)
  \/ RespondNotFound(p)
  \/ Mutate(p)
  \/ WriteTmp(p)
  \/ Replace(p)

SeqNext == \E p \in Procs : SeqStep(p)

SeqSpec == SeqInit /\ [][SeqNext]_vars

\* The Dataset Store alone: loads (read_csv_safely) and saves of the last
\* loaded DataFrame (write_csv_safely), with no other thread about.
PaddedHeader == <<<<" ">> \o COL_ID, COL_FIRST \o <<" ">>, COL_LAST>>
LoadIds == FileIds \cup {<<" ">>}
LoadFiles ==
  {CsvFile(h, [i \in 1..Len(is) |-> <<is[i], FirstOf(i), LAST0>>]) :
     h \in {GoodHeader, PaddedHeader}, is \in RowsUpTo(MaxLoadRows, LoadIds)}
  \cup {CsvFile(<<COL_FIRST, COL_LAST>>, [i \in 1..n |-> <<FirstOf(i), LAST0>>]) :
          n \in 0..MaxLoadRows}
  \cup {CsvFile(GoodHeader \o <<COL_EXTRA>>,
                [i \in 1..Len(is) |-> <<is[i], FirstOf(i), LAST0, <<>>>>]) :
          is \in RowsUpTo(MaxLoadRows, {<<>>, <<"7">>})}

LoadInit == InitWith(LoadFiles, [p \in Procs |-> 0], FALSE)

Last(q) == q[Len(q)]

HLoad ==
  /\ Len(trail) < MaxTrail
  /\ LET r == LoadCsv(Data, uuidCtr)
     IN /\ uuidCtr' = r.ctr
        /\ trail' = Append(trail, [kind |-> "load", file |-> Data, err |-> r.err, df |-> r.df])
  /\ UNCHANGED <<fs, lock, pc, req, df, status, err, resp, waited, todo,
                 loaded, before, wholes, log>>

HSave ==
  /\ Len(trail) < MaxTrail
  /\ trail # <<>>
  /\ Last(trail).kind = "load"
  /\ Last(trail).err = ""
  /\ fs' = AtomicWrite(fs, Last(trail).df)
  /\ trail' = Append(trail, [kind |-> "save", file |-> fs'[DATA_PATH], err |-> "",
                             df |-> Last(trail).df])
  /\ UNCHANGED <<lock, uuidCtr, pc, req, df, status, err, resp, waited, todo,
                 loaded, before, wholes, log>>

LoadNext == HLoad \/ HSave

LoadSpec == LoadInit /\ [][LoadNext]_vars

\* One request of any kind, alone, on every file of LoadFiles; logged.
COL_NICK == <<"n", "i", "c", "k">>
SoloPatches ==
  {<<>>,
   <<<<COL_FIRST, JsonStr(NEW_FIRST)>>>>,
   <<<<COL_ID, JsonStr(<<"9">>)>>>>,
   <<<<COL_NICK, JsonStr(NEW_FIRST)>>>>,
   <<<<COL_EXTRA, JsonInt(5)>>>>,
   <<<<COL_ID, JsonStr(<<"9">>)>>, <<COL_NICK, JsonStr(NEW_FIRST)>>,
     <<COL_LAST, JsonInt(12)>>, <<COL_FIRST, JsonStr(NEW_FIRST)>>>>}
Pages == {-1, 0, 1, 2, 5}
PerPages == {-1, 0, 1, 2, 3, 10}
FirstFilters == {<<>>, <<"R">>, <<"r", "2">>, <<".">>, <<"(">>}
LastFilters == {<<>>, <<"g">>, <<"z">>}

SoloRequests ==
  {ListReq(pg, pp) : pg \in Pages, pp \in PerPages}
  \cup {SearchReq(a, b) : a \in FirstFilters, b \in LastFilters}
  \cup {UpdateReq(i, q) : i \in KnownIds, q \in SoloPatches}
  \cup {DeleteReq(i) : i \in KnownIds}

StartSolo(p) == Start(p, SoloRequests)

SoloInit ==
  InitWith(LoadFiles \cup {NoFile}, [p \in Procs |-> IF p = "t1" THEN 1 ELSE 0], TRUE)

SoloStep(p) ==
  \/ StartSolo(p)
  \/ Acquire(p)
  \/ Load(p)
  \/ ListRespond(p)
  \/ SearchRespond(p)
  \/ RespondNotFound(p)
  \/ Mutate(p)
  \/ WriteTmp(p)
  \/ Replace(p)

SoloNext == \E p \in Procs : SoloStep(p)

SoloSpec == SoloInit /\ [][SoloNext]_vars

\* Fairness: every thread that can take a step eventually takes one (each
\* request runs on a thread of its own that the scheduler keeps running).
\* Checked from four initial files: one and two records, no file, and a file
\* without the last_name column.
FairFiles ==
  {CsvFile(GoodHeader, <<<<<<"7">>, FirstOf(1), LAST0>>>>),
   CsvFile(GoodHeader, <<<<<<"7">>, FirstOf(1), LAST0>>, <<<<"8">>, FirstOf(2), LAST0>>>>),
   NoFile, SchemaLessFile}
FairInit == InitWith(FairFiles, [p \in Procs |-> 1], FALSE)
FairSpec == FairInit /\ [][Next]_vars /\ \A p \in Procs : WF_vars(Step(p))

\* ------------------------------------------------------------ properties
\* the backing file holds a record with the id of p's request that carries
\* every value of p's patch
PatchPresent(p) ==
  /\ Data.exists
  /\ \E i \in 1..Len(Table.cells) :
       /\ Table.cells[i][ColPos(Table, COL_ID)] = req[p].id
       /\ \A k \in 1..Len(req[p].patch) :
            Table.cells[i][ColPos(Table, req[p].patch[k][1])] = PyStr(req[p].patch[k][2])

\* C1: two concurrent updates of different existing ids (neither hit by a lock
\* timeout or an I/O failure) both return 200 and, once both have returned, the
\* backing file carries both patches.
C1_BothUpdatesPresent ==
  \A p, q \in Procs :
    ( /\ p # q
      /\ pc[p] = "done" /\ pc[q] = "done"
      /\ req[p].op = "update" /\ req[q].op = "update"
      /\ req[p].id # req[q].id
      /\ status[p] # 404 /\ status[q] # 404
      /\ err[p] = "" /\ err[q] = "" )
    => /\ status[p] = 200 /\ status[q] = 200
       /\ PatchPresent(p) /\ PatchPresent(q)

\* thread p has loaded the file for an update or delete that goes on to save,
\* and has not yet saved
InCycle(p) ==
  /\ req[p].op \in {"update", "delete"}
  /\ \/ pc[p] \in {"w_wait", "w_cs", "w_rename"}
     \/ pc[p] = "loaded" /\ ~NotFound(df[p], req[p].id)

\* thread q loads or saves the backing file in this step
Accesses(q) ==
  \/ pc[q] = "r_cs" /\ pc'[q] # "r_cs"
  \/ pc[q] \in {"w_cs", "w_rename"} /\ pc'[q] # pc[q]

\* C2: between the load and the save of one update or delete no other
\* operation loads or saves the backing file (the guard is held over the whole
\* load -> transform -> save cycle).
C2_NoAccessInsideCycle ==
  [][\A p, q \in Procs : (p # q /\ InCycle(p)) => ~Accesses(q)]_vars

\* C3: the backing file is always a complete dataset, the one from before a
\* save or the one a save wrote; in particular every load (made in a state
\* with pc = "r_cs") reads a complete file.
C3_FileAlwaysWhole == Data \in wholes

\* a save failed part-way and left a partial temporary file, another thread is
\* about to load, and the backing file is whole
C3_Witness ==
  \E p, q \in Procs :
    /\ err[p] = "OSError"
    /\ fs[TmpPath(DATA_PATH)].exists
    /\ fs[TmpPath(DATA_PATH)] \notin wholes
    /\ pc[q] = "r_cs"
    /\ Data \in wholes

\* C9: no acquisition waits past the timeout bound: a thread still waiting
\* when the bound is reached fails with the lock-timeout outcome (500), every
\* request eventually returns, and the backing file stays a complete dataset.
C9_BoundedWait ==
  /\ [](\A p \in Procs :
          /\ waited[p] <= LOCK_TIMEOUT_SEC
          /\ (err[p] = "Timeout" => (status[p] = 500 /\ pc[p] = "done"))
          /\ ((\E q \in Procs : err[q] = "Timeout") => Data \in wholes))
  /\ \A p \in Procs : (pc[p] # "idle") ~> (pc[p] = "done")

\* one thread timed out while the other went on to save
C9_Witness ==
  \E p, q \in Procs :
    /\ err[p] = "Timeout" /\ status[p] = 500 /\ pc[p] = "done"
    /\ req[q].op \in {"update", "delete"} /\ status[q] = 200

\* C10: the guard is held only by a thread inside a load or save step: it is
\* free whenever no thread is inside one, and no returned request holds it.
C10_GuardReleased ==
  \A p \in Procs : lock = p => pc[p] \in {"r_cs", "w_cs", "w_rename"}

\* one request failed in its save and has returned, the other has returned
\* too, and the guard is free
C10_Witness ==
  \E p, q \in Procs :
    /\ p # q
    /\ pc[p] = "done" /\ err[p] = "OSError"
    /\ pc[q] = "done"
    /\ lock = Free

\* the id of a logged list item (a row of the DataFrame the request loaded)
ItemId(e, item) == item[ColPos(e.loaded.df, COL_ID)]

IsOk(e, op) == e.req.op = op /\ e.status = 200

\* C4: list, then a delete(id) that returns 200, then list, nothing else in
\* between: the second list holds no record with that id and reports a total
\* one less than the first.
C4_DeleteThenList ==
  \A i \in 1..(Len(log.events) - 2) :
    LET a == log.events[i]
        d == log.events[i + 1]
        b == log.events[i + 2]
    IN (IsOk(a, "list") /\ IsOk(d, "delete") /\ IsOk(b, "list"))
       => /\ b.resp.total = a.resp.total - 1
          /\ \A k \in 1..Len(b.resp.items) : ItemId(b, b.resp.items[k]) # d.req.id

\* such a run in which the first list showed two records and the second one
C4_Witness ==
  /\ Len(log.events) = 3
  /\ IsOk(log.events[1], "list") /\ IsOk(log.events[2], "delete")
  /\ IsOk(log.events[3], "list")
  /\ log.events[1].resp.total = 2
  /\ Len(log.events[1].resp.items) = 2
  /\ Len(log.events[3].resp.items) = 1

\* C5: an update or delete whose id is not in the dataset it loaded answers
\* 404 and leaves the backing file (and its temporary sibling) as they were
\* when the request began.
C5_UnknownIdNoSave ==
  \A i \in 1..Len(log.events) :
    LET e == log.events[i]
    IN ( /\ e.req.op \in {"update", "delete"}
         /\ e.loaded.ok
         /\ e.req.id \notin IdSet(e.loaded.df) )
       => /\ e.status = 404
          /\ e.after = e.before

\* an update and a delete of unknown ids were both refused, on a file with
\* rows whose load repairs ids
C5_Witness ==
  \E i, j \in 1..Len(log.events) :
    /\ log.events[i].req.op = "update" /\ log.events[i].status = 404
    /\ log.events[j].req.op = "delete" /\ log.events[j].status = 404
    /\ Len(Data.rows) = 2
    /\ \E k \in 1..Len(Data.rows) : IsBlank(Data.rows[k][1])

\* the table of file f before any id repair
TableOf(f) == StripColumns(ReadCsv(f))

\* the positions of the rows of file f that a load keeps: a row with a blank
\* id, or the first row in file order with its id
KeptRows(f) ==
  LET ids == Column(TableOf(f), COL_ID)
      keep == [i \in 1..Len(ids) |->
                 IsBlank(ids[i]) \/ \A j \in 1..(i - 1) : ids[j] # ids[i]]
  IN SelectIdx(keep, 1)

LoadedOk(e) == e.kind = "load" /\ e.err = ""

\* C6: a load of a file with the required columns returns records with
\* non-empty, pairwise different ids; the records are those of the rows with a
\* blank id, which get a generated id no other row of the file has, and of the
\* first row of each id, in file order and with their other values unchanged.
C6_LoadRepairsIds ==
  \A n \in 1..Len(trail) :
    LET e == trail[n]
        t == TableOf(e.file)
        ids == Column(e.df, COL_ID)
        kept == KeptRows(e.file)
    IN (LoadedOk(e) /\ HasCol(t, COL_ID))
       => /\ \A i \in 1..Len(ids) : ids[i] # <<>> /\ ~IsBlank(ids[i])
          /\ \A i, j \in 1..Len(ids) : i # j => ids[i] # ids[j]
          /\ e.df.columns = t.columns
          /\ Len(e.df.cells) = Len(kept)
          /\ \A i \in 1..Len(kept) :
               LET old == t.cells[kept[i]]
                   new == e.df.cells[i]
                   p == ColPos(t, COL_ID)
               IN /\ \A c \in 1..Len(old) : c # p => new[c] = old[c]
                  /\ IF IsBlank(old[p])
                     THEN \A j \in 1..Len(t.cells) : new[p] # t.cells[j][p]
                     ELSE new[p] = old[p]

\* a load of a file that holds a blank id and, after it, a repeated id
C6_Witness ==
  \E n \in 1..Len(trail) :
    /\ LoadedOk(trail[n])
    /\ HasCol(TableOf(trail[n].file), COL_ID)
    /\ Len(trail[n].df.cells) < Len(trail[n].file.rows)
    /\ \E k \in 1..Len(trail[n].file.rows) : IsBlank(trail[n].file.rows[k][1])

\* C7: two loads with no write in between return the same Dataset, and saving
\* either gives the same file.
C7_LoadIdempotent ==
  \A n \in 1..(Len(trail) - 1) :
    (LoadedOk(trail[n]) /\ LoadedOk(trail[n + 1]))
    => /\ trail[n + 1].df.columns = trail[n].df.columns
       /\ trail[n + 1].df.cells = trail[n].df.cells
       /\ ToCsv(trail[n + 1].df) = ToCsv(trail[n].df)

\* C8: load, save of the loaded Dataset, load: the second load returns the
\* records of the first, same values, same order, same columns.
C8_RoundTrip ==
  \A n \in 1..(Len(trail) - 2) :
    (LoadedOk(trail[n]) /\ trail[n + 1].kind = "save" /\ trail[n + 2].kind = "load")
    => /\ trail[n + 2].err = ""
       /\ trail[n + 2].df.columns = trail[n].df.columns
       /\ trail[n + 2].df.cells = trail[n].df.cells

\* a round trip whose first load stripped the header, generated an id and
\* dropped a repeated id
C8_Witness ==
  /\ Len(trail) >= 3
  /\ LoadedOk(trail[1]) /\ trail[2].kind = "save" /\ LoadedOk(trail[3])
  /\ trail[1].file.header = PaddedHeader
  /\ trail[1].file # trail[2].file
  /\ Len(trail[1].df.cells) < Len(trail[1].file.rows)
  /\ \E k \in 1..Len(trail[1].file.rows) : IsBlank(trail[1].file.rows[k][1])

\* the only request of a run of SoloSpec, once it has returned
Only == log.events[1]
Returned == Len(log.events) = 1

\* the patched value of the column named c, or old when the patch has no
\* settable item for it: the last item naming c decides
Patched(patch, c, old) ==
  IF c # COL_ID /\ \E k \in 1..Len(patch) : patch[k][1] = c
  THEN PyStr(patch[CHOOSE k \in 1..Len(patch) :
                     /\ patch[k][1] = c
                     /\ \A j \in (k + 1)..Len(patch) : patch[j][1] # c][2])
  ELSE old

\* C12: an update that returns 200 leaves in the backing file the dataset it
\* loaded with one record changed: same columns, same records in the same
\* order, every record of another id as it was, and of the record with the id
\* only the columns the patch names, `id` never.
C12_UpdateFrame ==
  Returned /\ IsOk(Only, "update")
  => LET d == Only.loaded.df
         t == TableOf(Only.after[DATA_PATH])
         p == ColPos(d, COL_ID)
     IN /\ t.columns = d.columns
        /\ Len(t.cells) = Len(d.cells)
        /\ \A i \in 1..Len(d.cells) :
             /\ t.cells[i][p] = d.cells[i][p]
             /\ IF d.cells[i][p] # Only.req.id
                THEN t.cells[i] = d.cells[i]
                ELSE \A c \in 1..Len(d.columns) :
                       t.cells[i][c] = Patched(Only.req.patch, d.columns[c], d.cells[i][c])

\* an update of the middle one of three records with a payload that names
\* `id`, a column the dataset lacks, and two columns it has
C12_Witness ==
  /\ Returned /\ IsOk(Only, "update")
  /\ Len(Only.req.patch) = 4
  /\ Len(Only.loaded.df.cells) = 3
  /\ Only.loaded.df.cells[2][ColPos(Only.loaded.df, COL_ID)] = Only.req.id
  /\ TableOf(Only.after[DATA_PATH]).cells[2] # Only.loaded.df.cells[2]

\* C13: a delete that returns 200 leaves in the backing file the dataset it
\* loaded without the one record of that id: one record less, the others with
\* their values and in their order.
C13_DeleteFrame ==
  Returned /\ IsOk(Only, "delete")
  => LET d == Only.loaded.df
         t == TableOf(Only.after[DATA_PATH])
         p == ColPos(d, COL_ID)
         hit == {i \in 1..Len(d.cells) : d.cells[i][p] = Only.req.id}
     IN /\ Cardinality(hit) = 1
        /\ t.columns = d.columns
        /\ Len(t.cells) = Len(d.cells) - 1
        /\ \A i \in 1..Len(t.cells) :
             t.cells[i] = d.cells[IF \A h \in hit : i < h THEN i ELSE i + 1]

\* a delete of the middle one of three records
C13_Witness ==
  /\ Returned /\ IsOk(Only, "delete")
  /\ Len(Only.loaded.df.cells) = 3
  /\ Only.loaded.df.cells[2][ColPos(Only.loaded.df, COL_ID)] = Only.req.id
  /\ Len(Only.after[DATA_PATH].rows) = 2

\* C14: a list or a search, whatever it answers, leaves the backing file and
\* its temporary sibling as they were, also when its load repaired ids.
C14_ReadOnly ==
  Returned /\ Only.req.op \in {"list", "search"} => Only.after = Only.before

\* a search that returned records of a file whose load generated an id and
\* dropped a repeated id
C14_Witness ==
  /\ Returned /\ IsOk(Only, "search")
  /\ Len(Only.resp.items) > 0
  /\ Len(Only.loaded.df.cells) < Len(Only.before[DATA_PATH].rows)
  /\ \E k \in 1..Len(Only.before[DATA_PATH].rows) : IsBlank(Only.before[DATA_PATH].rows[k][1])
  /\ Only.after = Only.before

Clamp(n) == IF n < 1 THEN 1 ELSE n

\* C15: list answers 200 with page and per_page clamped to at least 1, the
\* records at positions (page-1)*per_page .. (page-1)*per_page + per_page - 1
\* that exist, in file order (none when the range starts past the end),
\* total = number of records and total_pages = ceil(total / per_page).
C15_Pagination ==
  Returned /\ Only.req.op = "list" /\ Only.loaded.ok
  => LET d == Only.loaded.df
         r == Only.resp
         total == Len(d.cells)
         page == Clamp(Only.req.page)
         per == Clamp(Only.req.per_page)
         start == (page - 1) * per
         inside == {i \in 0..(total - 1) : start <= i /\ i < start + per}
     IN /\ Only.status = 200
        /\ r.page = page /\ r.per_page = per
        /\ Len(r.items) = Cardinality(inside)
        /\ \A k \in 1..Len(r.items) : r.items[k] = d.cells[start + k]
        /\ r.total = total
        /\ r.total_pages * per >= total
        /\ (r.total_pages - 1) * per < total

\* list(page=2, per_page=2) of three records: one item, two pages
C15_Witness ==
  /\ Returned /\ IsOk(Only, "list")
  /\ Only.req.page = 2 /\ Only.req.per_page = 2
  /\ Only.resp.total = 3
  /\ Len(Only.resp.items) = 1
  /\ Only.resp.total_pages = 2

\* s contains pat as a substring
ContainsLiteral(pat, s) ==
  \E o \in 1..(Len(s) + 1) :
    /\ o + Len(pat) - 1 <= Len(s)
    /\ \A k \in 1..Len(pat) : pat[k] = s[o + k - 1]

\* the records of d whose first_name contains first and whose last_name
\* contains last, both compared in lower case; an empty filter holds of all
Matching(d, first, last) ==
  LET keep == [i \in 1..Len(d.cells) |->
                 /\ ContainsLiteral(Lower(first), Lower(d.cells[i][ColPos(d, COL_FIRST)]))
                 /\ ContainsLiteral(Lower(last), Lower(d.cells[i][ColPos(d, COL_LAST)]))]
  IN TakeRows(d, SelectIdx(keep, 1)).cells

\* C16: search answers 400 without loading when both filters are empty;
\* otherwise, the load done, it answers 200 with exactly the records whose
\* first_name and last_name contain the filters given, case-insensitively, in
\* file order, and count is their number.
C16_SearchExact ==
  Returned /\ Only.req.op = "search"
  => IF Only.req.first = <<>> /\ Only.req.last = <<>>
     THEN Only.status = 400 /\ ~Only.loaded.ok
     ELSE Only.loaded.ok
          => /\ Only.status = 200
             /\ Only.resp.items = Matching(Only.loaded.df, Only.req.first, Only.req.last)
             /\ Only.resp.count = Len(Only.resp.items)

Mutating(r) == r.op \in {"update", "delete"}

\* thread p returns its response in this step
Returns(p) == pc[p] # "done" /\ pc'[p] = "done"

\* C11: an update or delete is all-or-nothing. The backing file changes only
\* in the step by which an update or delete returns 200, and then it holds the
\* whole change (every value of the patch on the record, or no record of the
\* deleted id); an update or delete that returns anything else (404, lock
\* timeout on load or save, write or rename failure) has changed nothing.
C11_AllOrNothing ==
  [][/\ Data' # Data
        => \E p \in Procs : Returns(p) /\ Mutating(req[p]) /\ status'[p] = 200
     /\ \A p \in Procs :
          (Returns(p) /\ Mutating(req'[p]))
          => IF status'[p] = 200
             THEN /\ Data' = ToCsv(df[p])
                  /\ req[p].op = "update" => PatchPresent(p)'
                  /\ req[p].op = "delete" => req[p].id \notin IdSet(Table')
             ELSE Data' = Data]_vars

\* an update failed in its save and left a partial temporary file, and the
\* update of the other thread returned 200 with its patch in the backing file
C11_Witness ==
  \E p, q \in Procs :
    /\ p # q
    /\ pc[p] = "done" /\ Mutating(req[p]) /\ err[p] = "OSError"
    /\ fs[TmpPath(DATA_PATH)].exists /\ fs[TmpPath(DATA_PATH)] \notin wholes
    /\ pc[q] = "done" /\ req[q].op = "update" /\ status[q] = 200
    /\ PatchPresent(q)

\* C17: an update of an existing id with an empty payload answers 200, writes
\* the dataset it loaded to the backing file and returns the record.
C17_EmptyPatchWrites ==
  ( /\ Returned
    /\ Only.req.op = "update" /\ Only.req.patch = <<>>
    /\ LoadCsv(Only.before[DATA_PATH], 0).err = ""
    /\ Only.req.id \in IdSet(LoadCsv(Only.before[DATA_PATH], 0).df) )
  => LET d == LoadCsv(Only.before[DATA_PATH], 0).df
     IN /\ Only.status = 200
        /\ Only.after[DATA_PATH] = ToCsv(d)
        /\ \E i \in 1..Len(d.cells) : Only.resp.items = <<d.cells[i]>>

\* the backing file holds a record with the id x
Holds(x) == Data.exists /\ HasCol(Table, COL_ID) /\ x \in IdSet(Table)

\* file w is what request r writes when it loads file f (with k identifiers
\* generated before)
DerivedFrom(f, r, w) ==
  \E k \in 0..uuidCtr :
    /\ LoadCsv(f, k).err = ""
    /\ ~NotFound(LoadCsv(f, k).df, r.id)
    /\ w = ToCsv(IF r.op = "update"
                 THEN ApplyPatch(LoadCsv(f, k).df, r.id, r.patch)
                 ELSE DeleteRows(LoadCsv(f, k).df, r.id))

\* C18: once a delete(id) has returned 200 the backing file never again holds
\* a record with that id, and every save writes a dataset derived from the
\* backing file as it is when the save is made.
C18_NoStaleWrite ==
  /\ [](\A p \in Procs :
          (pc[p] = "done" /\ req[p].op = "delete" /\ status[p] = 200)
          => ~Holds(req[p].id))
  /\ [][\A p \in Procs :
          (pc[p] = "w_cs" /\ pc'[p] = "w_rename")
          => DerivedFrom(Data, req[p], fs'[TmpPath(DATA_PATH)])]_vars

\* some update or delete has returned 200
Mutated == \E p \in Procs : pc[p] = "done" /\ Mutating(req[p]) /\ status[p] = 200

\* every id of the backing file is non-empty and no two rows share one
FileIdsRepaired ==
  /\ Data.exists
  /\ HasCol(Table, COL_ID)
  /\ \A i \in 1..Len(Table.cells) : ~IsBlank(Column(Table, COL_ID)[i])
  /\ \A i, j \in 1..Len(Table.cells) :
       i # j => Column(Table, COL_ID)[i] # Column(Table, COL_ID)[j]

\* x is an identifier a load generated
IsGenerated(x) == \E k \in 1..uuidCtr : x = Uuid(k)

\* C19: once an update or delete has returned 200 the backing file holds only
\* non-empty, unique ids, and from then on a record keeps its id: no generated
\* identifier appears in the file that the file did not hold before.
C19_RepairPersisted ==
  /\ [](Mutated => FileIdsRepaired)
  /\ [][Mutated => \A x \in IdSet(Table') : IsGenerated(x)' => Holds(x)]_vars

====
